---- MODULE Spec2Model ----
(***************************************************************************)
(* Volume lifecycle of the Azure backend (lepton, azure volume service):   *)
(* CreateVolume, GetAllVolumes, AttachVolume, DetachVolume, together with  *)
(* the provider (disks client, VM client, long-running operations) and the *)
(* local-image and upload collaborators they call.                         *)
(*                                                                         *)
(* Strings that the code parses or splits are sequences of one-character   *)
(* strings.  A Go int (64 bit) is a sign and a decimal magnitude, a        *)
(* sequence of digits without leading zeros, because its values exceed the *)
(* integers of the model checker; an int32 is an integer.                  *)
(***************************************************************************)
EXTENDS Integers, Sequences, FiniteSets, TLC

\* ------------------------------------------------------------------ bounds
\* largest number of disks the provider puts into one page of a listing
MaxPageSize == 2
\* failures of the page fetch the provider may produce during one listing
MaxNextFailures == 1
\* instance updates in progress whose caller has given up waiting, up to
\* which the provider takes a further update
MaxAbandoned == 1
\* disk creations the provider holds in progress at the same time
MaxCreating == 1
\* data disks an instance holds before the first call
MaxHeld == 2

\* ---------------------------------------------------------------- universe
Procs == {"c1", "c2"}
Names == {"vol1", "vol2", "vol3"}
Instances == {"vm1", "vm2"}

DigitChars == <<"0", "1", "2", "3", "4", "5", "6", "7", "8", "9">>

IsDigit(ch) == \E k \in 1..10 : DigitChars[k] = ch

DigitVal(ch) == (CHOOSE k \in 1..10 : DigitChars[k] = ch) - 1

\* size arguments of CreateVolume
Size5G == <<"5", "0", "0", "0", "0", "0", "0", "0", "0", "0">>
Size1999999 == <<"1", "9", "9", "9", "9", "9", "9">>
Size999999 == <<"9", "9", "9", "9", "9", "9">>
SizeWrap == <<"2", "1", "4", "7", "4", "8", "3", "6", "4", "8", "0", "0", "0", "0", "0", "0">>
SizeNeg == <<"-", "1", "9", "9", "9", "9", "9", "9">>
SizeSuffix == <<"1", "g">>
SizeEmpty == << >>
SizeTooBig == <<"9", "2", "2", "3", "3", "7", "2", "0", "3", "6", "8", "5", "4", "7", "7", "5", "8", "0", "8">>

SizeStrings == {Size5G, Size1999999, Size999999, SizeWrap, SizeNeg, SizeSuffix, SizeEmpty, SizeTooBig}

\* ------------------------------------------------- decimal magnitudes (int)
RECURSIVE Norm(_)
Norm(m) == IF Len(m) > 1 /\ m[1] = 0 THEN Norm(Tail(m)) ELSE m

\* m1 < m2 for normalised magnitudes
RECURSIVE LexLess(_, _)
LexLess(m1, m2) ==
    IF m1 = << >> THEN FALSE
    ELSE IF m1[1] # m2[1] THEN m1[1] < m2[1]
    ELSE LexLess(Tail(m1), Tail(m2))

MagLess(m1, m2) ==
    \/ Len(m1) < Len(m2)
    \/ Len(m1) = Len(m2) /\ LexLess(m1, m2)

MagLeq(m1, m2) == m1 = m2 \/ MagLess(m1, m2)

\* 2^63, the first magnitude a positive int cannot hold
TwoTo63 == <<9, 2, 2, 3, 3, 7, 2, 0, 3, 6, 8, 5, 4, 7, 7, 5, 8, 0, 8>>

\* n = n*10 + int(ch) over the characters of s
RECURSIVE ParseDigits(_, _)
ParseDigits(s, n) ==
    IF s = << >> THEN n
    ELSE ParseDigits(Tail(s), Norm(Append(n, DigitVal(s[1]))))

\* strconv.Atoi: optional sign, at least one digit, digits only, int range
Atoi(s) ==
    LET signed == s # << >> /\ s[1] \in {"-", "+"}
        body == IF signed THEN Tail(s) ELSE s
        neg == signed /\ s[1] = "-"
    IN  IF body = << >> \/ \E k \in 1..Len(body) : ~IsDigit(body[k])
        THEN [err |-> "syntax", neg |-> FALSE, mag |-> <<0>>]
        ELSE LET mag == ParseDigits(body, <<0>>)
             IN  IF (neg /\ MagLess(TwoTo63, mag)) \/ (~neg /\ MagLeq(TwoTo63, mag))
                 THEN [err |-> "range", neg |-> FALSE, mag |-> <<0>>]
                 ELSE [err |-> "nil", neg |-> neg /\ mag # <<0>>, mag |-> mag]

\* long division of a magnitude by a small divisor, quotient digits
RECURSIVE LongDiv(_, _, _, _)
LongDiv(m, d, r, q) ==
    IF m = << >> THEN q
    ELSE LET cur == r * 10 + m[1]
         IN  LongDiv(Tail(m), d, cur % d, Append(q, cur \div d))

\* Go's x / d for d > 0: the quotient truncated toward zero
Quot(x, d) ==
    LET q == Norm(LongDiv(x.mag, d, 0, << >>))
    IN  [neg |-> x.neg /\ q # <<0>>, mag |-> q]

\* the low 32 bits of a magnitude, as two 16-bit halves <<high, low>>
RECURSIVE Low32(_, _)
Low32(m, acc) ==
    IF m = << >> THEN acc
    ELSE LET lo == acc[2] * 10 + m[1]
             hi == acc[1] * 10 + (lo \div 65536)
         IN  Low32(Tail(m), <<hi % 65536, lo % 65536>>)

\* int32(x): the low 32 bits of the two's complement, read as signed
Int32(x) ==
    LET u == Low32(x.mag, <<0, 0>>)
        w == IF ~x.neg THEN u
             ELSE IF u[2] = 0 THEN <<(65536 - u[1]) % 65536, 0>>
             ELSE <<65535 - u[1], 65536 - u[2]>>
    IN  IF w[1] >= 32768 THEN (w[1] - 65536) * 65536 + w[2]
        ELSE w[1] * 65536 + w[2]

\* DiskSizeGB: int32(sizeInt / 1000 / 1000)
DiskSizeGB(sizeInt) == Int32(Quot(Quot(sizeInt, 1000), 1000))

\* strconv.Itoa of a natural number, most significant digit first
RECURSIVE ItoaNat(_)
ItoaNat(n) ==
    IF n < 10 THEN <<DigitChars[n + 1]>>
    ELSE Append(ItoaNat(n \div 10), DigitChars[(n % 10) + 1])

Itoa(n) == IF n < 0 THEN <<"-">> \o ItoaNat(0 - n) ELSE ItoaNat(n)

\* --------------------------------------------------- resource identifiers
\* the resource ID of an instance, "/subscriptions/.../virtualMachines/<image>",
\* as its sequence of separators and path segments
VMID(image) ==
    <<"/", "subscriptions", "/", "subID", "/", "resourceGroups", "/", "groupName",
      "/", "providers", "/", "Microsoft.Compute", "/", "virtualMachines", "/", image>>

\* strings.Split(s, sep): the pieces of s between the separators
RECURSIVE SplitFrom(_, _, _, _)
SplitFrom(s, sep, cur, parts) ==
    IF s = << >> THEN Append(parts, cur)
    ELSE IF s[1] = sep THEN SplitFrom(Tail(s), sep, << >>, Append(parts, cur))
    ELSE SplitFrom(Tail(s), sep, Append(cur, s[1]), parts)

Split(s, sep) == SplitFrom(s, sep, << >>, << >>)

\* attachedTo of GetAllVolumes: the last piece of *disk.ManagedBy, "" if nil
AttachedTo(managedBy) ==
    IF managedBy # << >>
    THEN LET instanceURLParts == Split(managedBy, "/")
         IN  instanceURLParts[Len(instanceURLParts)]
    ELSE << >>

\* ------------------------------------------------------------------ state
VARIABLES
    pc,         \* pc[p]: where caller p is in the operation it runs
    args,       \* args[p]: the operation and its arguments
    frame,      \* frame[p]: the local variables of the operation
    result,     \* result[p]: what the operation returned
    trace,      \* trace[p]: the collaborator and provider calls it made
    future,     \* future[p]: state of the long-running update p waits for
    ImageName,  \* config.CloudConfig.ImageName
    account,    \* the disks of the account, in provider order
    creating,   \* disk creations the provider has accepted and not finished
    deleting,   \* disk deletions the provider has accepted and not finished
    instances,  \* instances[image]: StorageProfile.DataDisks of the instance
    updates     \* instance updates the provider has accepted and not finished

vars == <<pc, args, frame, result, trace, future, ImageName, account, creating, deleting,
          instances, updates>>

NoArgs == [op |-> "none", name |-> "", size |-> << >>, image |-> ""]

NoVolume == [Name |-> "", Size |-> << >>, Path |-> << >>, AttachedTo |-> << >>]

NoInt == [err |-> "unset", neg |-> FALSE, mag |-> <<0>>]

NoFrame ==
    [sizeInt |-> NoInt, vol |-> NoVolume, vm |-> << >>, before |-> << >>, listing |-> << >>,
     azureDisksPage |-> [from |-> 1, to |-> 0], disks |-> << >>, i |-> 0,
     vols |-> << >>, failures |-> 0, after |-> NoArgs, ticket |-> 0]

NoResult == [err |-> "none", vol |-> NoVolume, vols |-> [nil |-> TRUE, list |-> << >>]]

\* one call made by an operation: what was called, the ImageName of the
\* config at that time, the disk size handed over, and whether it succeeded
Call(c, img, gb, ok) == [call |-> c, ImageName |-> img, DiskSizeGB |-> gb, ok |-> ok]

DiskNames(ds) == {ds[k].Name : k \in 1..Len(ds)}

HasDisk(name) == name \in DiskNames(account)

\* the accounts the model starts from: the first n of the disks below, the
\* first m of them attached to one instance as its data disks 0..m-1
AllDisks == <<"vol1", "vol2", "vol3">>

Init ==
    /\ pc = [p \in Procs |-> "idle"]
    /\ args = [p \in Procs |-> NoArgs]
    /\ frame = [p \in Procs |-> NoFrame]
    /\ result = [p \in Procs |-> NoResult]
    /\ trace = [p \in Procs |-> << >>]
    /\ future = [p \in Procs |-> "none"]
    /\ ImageName = ""
    /\ creating = {}
    /\ deleting = {}
    /\ updates = << >>
    /\ \E n \in 0..Len(AllDisks), m \in 0..MaxHeld, holder \in Instances :
         /\ m <= n
         /\ account = [k \in 1..n |->
                         [Name |-> AllDisks[k], DiskSizeGB |-> 1,
                          ManagedBy |-> IF k <= m THEN VMID(holder) ELSE << >>]]
         /\ instances = [image \in Instances |->
                           IF image = holder
                           THEN [k \in 1..m |-> [Lun |-> k - 1, Name |-> AllDisks[k]]]
                           ELSE << >>]

\* return err (and the values returned with it) to the caller
Ret(p, r) ==
    /\ pc' = [pc EXCEPT ![p] = "return"]
    /\ result' = [result EXCEPT ![p] = r]

\* ---------------------------------------------------------- CreateVolume
\* lines 15-24: parse the size
CreateVolume(p, name, size) ==
    /\ pc[p] = "idle"
    /\ args' = [args EXCEPT ![p] = [op |-> "CreateVolume", name |-> name, size |-> size, image |-> ""]]
    /\ LET sizeInt == Atoi(size)
       IN  /\ frame' = [frame EXCEPT ![p].sizeInt = sizeInt]
           /\ trace' = [trace EXCEPT ![p] = <<Call("Atoi", ImageName, 0, sizeInt.err = "nil")>>]
           /\ IF sizeInt.err # "nil"
              THEN Ret(p, [NoResult EXCEPT !.err = "atoi"])
              ELSE /\ pc' = [pc EXCEPT ![p] = "CreateLocalVolume"]
                   /\ UNCHANGED result
    /\ UNCHANGED <<future, ImageName, account, creating, deleting, instances, updates>>

\* CreateLocalVolume with the error of the collaborator left unchecked
CreateLocalVolume_Unchecked(p) ==
    /\ pc[p] = "CreateLocalVolume"
    /\ \E ok \in BOOLEAN :
         trace' = [trace EXCEPT ![p] = Append(@, Call("CreateLocalVolume", ImageName, 0, ok))]
    /\ pc' = [pc EXCEPT ![p] = "SetImageName"]
    /\ UNCHANGED <<args, frame, result, future, ImageName, account, creating, deleting, instances, updates>>

\* lines 26-29: the local image collaborator builds the volume file, or fails
CreateLocalVolume(p) ==
    /\ pc[p] = "CreateLocalVolume"
    /\ \/ LET vol == [Name |-> args[p].name, Size |-> args[p].size,
                      Path |-> <<"volumes", "/", args[p].name, ".raw">>,
                      AttachedTo |-> << >>]
          IN  /\ frame' = [frame EXCEPT ![p].vol = vol]
              /\ trace' = [trace EXCEPT ![p] = Append(@, Call("CreateLocalVolume", ImageName, 0, TRUE))]
              /\ pc' = [pc EXCEPT ![p] = "SetImageName"]
              /\ UNCHANGED result
       \/ /\ trace' = [trace EXCEPT ![p] = Append(@, Call("CreateLocalVolume", ImageName, 0, FALSE))]
          /\ Ret(p, [NoResult EXCEPT !.err = "create local volume"])
          /\ UNCHANGED frame
    /\ UNCHANGED <<args, future, ImageName, account, creating, deleting, instances, updates>>

\* SetImageName without the assignment
SetImageName_Skipped(p) ==
    /\ pc[p] = "SetImageName"
    /\ pc' = [pc EXCEPT ![p] = "CopyToBucket"]
    /\ UNCHANGED <<args, frame, result, trace, future, ImageName, account, creating, deleting, instances, updates>>

\* line 31: config.CloudConfig.ImageName = name
SetImageName(p) ==
    /\ pc[p] = "SetImageName"
    /\ ImageName' = args[p].name
    /\ pc' = [pc EXCEPT ![p] = "CopyToBucket"]
    /\ UNCHANGED <<args, frame, result, trace, future, account, creating, deleting, instances, updates>>

\* lines 33-36: the upload collaborator reads ImageName and uploads, or fails
CopyToBucket(p) ==
    /\ pc[p] = "CopyToBucket"
    /\ \/ /\ trace' = [trace EXCEPT ![p] = Append(@, Call("CopyToBucket", ImageName, 0, TRUE))]
          /\ pc' = [pc EXCEPT ![p] = "DisksCreateOrUpdate"]
          /\ UNCHANGED result
       \/ /\ trace' = [trace EXCEPT ![p] = Append(@, Call("CopyToBucket", ImageName, 0, FALSE))]
          /\ Ret(p, [NoResult EXCEPT !.err = "copy volume archive to azure bucket",
                                     !.vol = frame[p].vol])
    /\ UNCHANGED <<args, frame, future, ImageName, account, creating, deleting, instances, updates>>

\* the provider takes the creation of a disk when the size is a positive
\* number of gigabytes and the name is not taken (the source of an existing
\* disk cannot be changed)
Acceptable(name, gb) ==
    /\ gb >= 1
    /\ ~HasDisk(name)
    /\ \A c \in creating : c.Name # name
    /\ Cardinality(creating) < MaxCreating

\* lines 38-66: disksClient.CreateOrUpdate sends the request; its future is
\* dropped, so the call returns as soon as the provider answers the request
DisksCreateOrUpdate(p) ==
    /\ pc[p] = "DisksCreateOrUpdate"
    /\ LET gb == DiskSizeGB(frame[p].sizeInt)
       IN  \/ /\ Acceptable(args[p].name, gb)
              /\ trace' = [trace EXCEPT ![p] = Append(@, Call("DisksCreateOrUpdate", ImageName, gb, TRUE))]
              /\ creating' = creating \cup {[Name |-> args[p].name, DiskSizeGB |-> gb]}
              /\ Ret(p, [NoResult EXCEPT !.err = "nil", !.vol = frame[p].vol])
           \/ /\ trace' = [trace EXCEPT ![p] = Append(@, Call("DisksCreateOrUpdate", ImageName, gb, FALSE))]
              /\ UNCHANGED creating
              /\ Ret(p, [NoResult EXCEPT !.err = "create disk", !.vol = frame[p].vol])
    /\ UNCHANGED <<args, frame, future, ImageName, account, instances, updates, deleting>>

\* the provider finishes a disk creation: the disk joins the account
DiskCreated(c) ==
    /\ c \in creating
    /\ creating' = creating \ {c}
    /\ account' = Append(account, [Name |-> c.Name, DiskSizeGB |-> c.DiskSizeGB, ManagedBy |-> << >>])
    /\ UNCHANGED <<pc, args, frame, result, trace, future, ImageName, instances, updates, deleting>>

\* the provider gives up a disk creation (the import fails): no disk results
DiskCreateFailed(c) ==
    /\ c \in creating
    /\ creating' = creating \ {c}
    /\ UNCHANGED <<pc, args, frame, result, trace, future, ImageName, account, instances, updates, deleting>>

\* the caller takes the returned values; the next call starts afresh
Return(p) ==
    /\ pc[p] = "return"
    /\ pc' = [pc EXCEPT ![p] = "idle"]
    /\ args' = [args EXCEPT ![p] = NoArgs]
    /\ frame' = [frame EXCEPT ![p] = NoFrame]
    /\ result' = [result EXCEPT ![p] = NoResult]
    /\ trace' = [trace EXCEPT ![p] = << >>]
    /\ UNCHANGED <<future, ImageName, account, creating, deleting, instances, updates>>

\* --------------------------------------------------------- GetAllVolumes
\* DiskListPage.Values(): the disks of the page, nil for a page without disks
Values(f) == SubSeq(f.listing, f.azureDisksPage.from, f.azureDisksPage.to)

\* whether the page carries a link to a following page
HasNextLink(f) == f.azureDisksPage.to < Len(f.listing)

\* the page behind a page without such a link: no disks, no link
NoPage(f) == [from |-> Len(f.listing) + 1, to |-> Len(f.listing)]

\* the pages the provider may answer a fetch of the following page with
NextPages(f) ==
    {[from |-> f.azureDisksPage.to + 1, to |-> f.azureDisksPage.to + n] :
        n \in 1..MaxPageSize} \cap
    {[from |-> a, to |-> b] : a \in 1..Len(f.listing), b \in 1..Len(f.listing)}

\* lines 95-102: the NanosVolume of a disk
VolumeOf(disk) ==
    [Name |-> disk.Name, Size |-> Itoa(disk.DiskSizeGB), Path |-> << >>,
     AttachedTo |-> AttachedTo(disk.ManagedBy)]

\* the locals at the start of a listing; a listing issued right after an
\* operation has returned success keeps which operation that was
Fresh(p) ==
    IF pc[p] = "return" /\ result[p].err = "nil"
    THEN [NoFrame EXCEPT !.after = args[p]]
    ELSE NoFrame

\* lines 71-78: volumesService.List fetches the first page, or fails
GetAllVolumes(p) ==
    /\ pc[p] \in {"idle", "return"}
    /\ args' = [args EXCEPT ![p] = [NoArgs EXCEPT !.op = "GetAllVolumes"]]
    /\ \/ /\ trace' = [trace EXCEPT ![p] = <<Call("List", ImageName, 0, TRUE)>>]
          /\ \E n \in 0..MaxPageSize :
               /\ n <= Len(account)
               /\ n = 0 => account = << >>
               /\ frame' = [frame EXCEPT ![p] = [Fresh(p) EXCEPT !.listing = account,
                                                  !.azureDisksPage = [from |-> 1, to |-> n]]]
          /\ pc' = [pc EXCEPT ![p] = "Values"]
          /\ result' = [result EXCEPT ![p] = NoResult]
       \/ /\ trace' = [trace EXCEPT ![p] = <<Call("List", ImageName, 0, FALSE)>>]
          /\ Ret(p, [NoResult EXCEPT !.err = "list"])
          /\ frame' = [frame EXCEPT ![p] = Fresh(p)]
    /\ UNCHANGED <<future, ImageName, account, creating, deleting, instances, updates>>

\* PageValues with vols declared as a nil pointer, set at the first append
PageValues_NilVols(p) ==
    /\ pc[p] = "Values"
    /\ LET disks == Values(frame[p])
       IN  IF disks = << >>
           THEN /\ Ret(p, [NoResult EXCEPT !.err = "nil",
                                           !.vols = [nil |-> frame[p].vols = << >>,
                                                     list |-> frame[p].vols]])
                /\ UNCHANGED frame
           ELSE /\ frame' = [frame EXCEPT ![p].disks = disks, ![p].i = 1]
                /\ pc' = [pc EXCEPT ![p] = "range"]
                /\ UNCHANGED result
    /\ UNCHANGED <<args, trace, future, ImageName, account, creating, deleting, instances, updates>>

\* lines 80-85 and 110: take the disks of the current page, return at nil
PageValues(p) ==
    /\ pc[p] = "Values"
    /\ LET disks == Values(frame[p])
       IN  IF disks = << >>
           THEN /\ Ret(p, [NoResult EXCEPT !.err = "nil",
                                           !.vols = [nil |-> FALSE, list |-> frame[p].vols]])
                /\ UNCHANGED frame
           ELSE /\ frame' = [frame EXCEPT ![p].disks = disks, ![p].i = 1]
                /\ pc' = [pc EXCEPT ![p] = "range"]
                /\ UNCHANGED result
    /\ UNCHANGED <<args, trace, future, ImageName, account, creating, deleting, instances, updates>>

\* lines 87-107: one round of the loop over the disks taken from the page:
\* append the volume of the disk, then azureDisksPage.Next(), whose error is
\* dropped; a failed fetch leaves the page as it is
RangeDisks(p) ==
    /\ pc[p] = "range"
    /\ LET f == frame[p]
           appended == Append(f.vols, VolumeOf(f.disks[f.i]))
           done == f.i = Len(f.disks)
       IN  /\ pc' = [pc EXCEPT ![p] = IF done THEN "Values" ELSE "range"]
           /\ \/ /\ ~HasNextLink(f)
                 /\ frame' = [frame EXCEPT ![p].vols = appended, ![p].i = f.i + 1,
                                           ![p].azureDisksPage = NoPage(f)]
                 /\ trace' = [trace EXCEPT ![p] = Append(@, Call("Next", ImageName, 0, TRUE))]
              \/ /\ HasNextLink(f)
                 /\ \E next \in NextPages(f) :
                      frame' = [frame EXCEPT ![p].vols = appended, ![p].i = f.i + 1,
                                             ![p].azureDisksPage = next]
                 /\ trace' = [trace EXCEPT ![p] = Append(@, Call("Next", ImageName, 0, TRUE))]
              \/ /\ HasNextLink(f)
                 /\ f.failures < MaxNextFailures
                 /\ frame' = [frame EXCEPT ![p].vols = appended, ![p].i = f.i + 1,
                                           ![p].failures = f.failures + 1]
                 /\ trace' = [trace EXCEPT ![p] = Append(@, Call("Next", ImageName, 0, FALSE))]
    /\ UNCHANGED <<args, result, future, ImageName, account, creating, deleting, instances, updates>>

\* lines 87-107 while the provider stays out of reach: a round in which
\* azureDisksPage.Next() fails once more.  The page stays as it is, so the
\* loop takes its disks again; the volumes appended again and the calls of
\* these rounds are no longer recorded.
RangeDisksOutage(p) ==
    /\ pc[p] = "range"
    /\ LET f == frame[p]
       IN  /\ HasNextLink(f)
           /\ f.failures = MaxNextFailures
           /\ pc' = [pc EXCEPT ![p] = IF f.i = Len(f.disks) THEN "Values" ELSE "range"]
           /\ frame' = [frame EXCEPT ![p].i = f.i + 1]
    /\ UNCHANGED <<args, result, trace, future, ImageName, account, creating, deleting, instances, updates>>

\* ----------------------------------------------------------- DeleteVolume
\* lines 114-123: volumesService.Delete sends the request; its future is
\* dropped, so DeleteVolume returns what the provider answers to the request.
\* The provider takes the deletion of a disk it has as a long-running
\* operation, and answers the deletion of a disk it does not have with
\* 204 No Content, which the client takes as success like 200 and 202.
DeleteVolume(p, name) ==
    /\ pc[p] = "idle"
    /\ args' = [args EXCEPT ![p] = [NoArgs EXCEPT !.op = "DeleteVolume", !.name = name]]
    /\ \/ /\ trace' = [trace EXCEPT ![p] = <<Call("DisksDelete", ImageName, 0, TRUE)>>]
          /\ deleting' = IF HasDisk(name) THEN deleting \cup {name} ELSE deleting
          /\ Ret(p, [NoResult EXCEPT !.err = "nil"])
       \/ /\ trace' = [trace EXCEPT ![p] = <<Call("DisksDelete", ImageName, 0, FALSE)>>]
          /\ UNCHANGED deleting
          /\ Ret(p, [NoResult EXCEPT !.err = "delete"])
    /\ UNCHANGED <<frame, future, ImageName, account, creating, instances, updates>>

\* the provider finishes a disk deletion: a disk no instance holds leaves
\* the account
DiskDeleted(name) ==
    /\ name \in deleting
    /\ \A k \in 1..Len(account) : account[k].Name = name => account[k].ManagedBy = << >>
    /\ deleting' = deleting \ {name}
    /\ account' = SelectSeq(account, LAMBDA d : d.Name # name)
    /\ UNCHANGED <<pc, args, frame, result, trace, future, ImageName, creating, instances, updates>>

\* the provider gives up a disk deletion (the disk is attached, say): the
\* disk stays
DiskDeleteFailed(name) ==
    /\ name \in deleting
    /\ deleting' = deleting \ {name}
    /\ UNCHANGED <<pc, args, frame, result, trace, future, ImageName, account, creating, instances, updates>>

\* ------------------------------------------------ AttachVolume, DetachVolume
\* lines 127-131: vmClient.Get reads the instance, or fails
AttachVolume(p, image, name) ==
    /\ pc[p] = "idle"
    /\ args' = [args EXCEPT ![p] = [op |-> "AttachVolume", name |-> name, size |-> << >>, image |-> image]]
    /\ \/ /\ trace' = [trace EXCEPT ![p] = <<Call("VMGet", ImageName, 0, TRUE)>>]
          /\ frame' = [frame EXCEPT ![p].vm = instances[image], ![p].before = instances[image]]
          /\ pc' = [pc EXCEPT ![p] = "DisksGet"]
          /\ UNCHANGED result
       \/ /\ trace' = [trace EXCEPT ![p] = <<Call("VMGet", ImageName, 0, FALSE)>>]
          /\ Ret(p, [NoResult EXCEPT !.err = "get vm"])
          /\ UNCHANGED frame
    /\ UNCHANGED <<future, ImageName, account, creating, deleting, instances, updates>>

\* DisksGet going on to the update of the instance when the Get has failed
DisksGet_Unchecked(p) ==
    /\ pc[p] = "DisksGet"
    /\ \/ /\ HasDisk(args[p].name)
          /\ trace' = [trace EXCEPT ![p] = Append(@, Call("DisksGet", ImageName, 0, TRUE))]
       \/ /\ trace' = [trace EXCEPT ![p] = Append(@, Call("DisksGet", ImageName, 0, FALSE))]
    /\ pc' = [pc EXCEPT ![p] = "AttachUpdate"]
    /\ UNCHANGED <<args, frame, result, future, ImageName, account, creating, deleting, instances, updates>>

\* lines 133-138: disksClient.Get reads the disk; fails when there is none
DisksGet(p) ==
    /\ pc[p] = "DisksGet"
    /\ \/ /\ HasDisk(args[p].name)
          /\ trace' = [trace EXCEPT ![p] = Append(@, Call("DisksGet", ImageName, 0, TRUE))]
          /\ pc' = [pc EXCEPT ![p] = "AttachUpdate"]
          /\ UNCHANGED result
       \/ /\ trace' = [trace EXCEPT ![p] = Append(@, Call("DisksGet", ImageName, 0, FALSE))]
          /\ Ret(p, [NoResult EXCEPT !.err = "get disk"])
    /\ UNCHANGED <<args, frame, future, ImageName, account, creating, deleting, instances, updates>>

\* AttachDataDisks adding the disk behind the data disks already there
AttachDataDisks_Appended(dataDisks, name) ==
    Append(dataDisks, [Lun |-> Len(dataDisks), Name |-> name])

\* lines 140-149: the data disks AttachVolume puts into the descriptor
AttachDataDisks(dataDisks, name) == <<[Lun |-> 0, Name |-> name]>>

\* DetachDataDisks with the comparison of the names turned around
RECURSIVE DetachDataDisks_Inverted(_, _)
DetachDataDisks_Inverted(dataDisks, name) ==
    IF dataDisks = << >> THEN << >>
    ELSE IF dataDisks[1].Name = name
    THEN <<dataDisks[1]>> \o DetachDataDisks_Inverted(Tail(dataDisks), name)
    ELSE DetachDataDisks_Inverted(Tail(dataDisks), name)

\* lines 174-182: the data disks DetachVolume puts into the descriptor
RECURSIVE DetachDataDisks(_, _)
DetachDataDisks(dataDisks, name) ==
    IF dataDisks = << >> THEN << >>
    ELSE IF dataDisks[1].Name # name
    THEN <<dataDisks[1]>> \o DetachDataDisks(Tail(dataDisks), name)
    ELSE DetachDataDisks(Tail(dataDisks), name)

\* the updates in progress that no caller waits for any more
Abandoned == Cardinality({k \in 1..Len(updates) : updates[k].owner = "nobody"})

\* the place of an update among the updates the running operations have
\* submitted: frame[p].ticket is 0 until the provider has taken the update of p
NextTicket == 1 + Cardinality({q \in Procs : frame[q].ticket > 0})

\* vmClient.CreateOrUpdate: the provider takes the update as a long-running
\* operation and hands out its future, or rejects the request
VMCreateOrUpdate(p, dataDisks) ==
    /\ \/ /\ Abandoned < MaxAbandoned
          /\ frame' = [frame EXCEPT ![p].vm = dataDisks, ![p].ticket = NextTicket]
          /\ trace' = [trace EXCEPT ![p] = Append(@, Call("VMCreateOrUpdate", ImageName, 0, TRUE))]
          /\ updates' = Append(updates, [owner |-> p, image |-> args[p].image, DataDisks |-> dataDisks])
          /\ future' = [future EXCEPT ![p] = "InProgress"]
          /\ pc' = [pc EXCEPT ![p] = "WaitForCompletionRef"]
          /\ UNCHANGED result
       \/ /\ trace' = [trace EXCEPT ![p] = Append(@, Call("VMCreateOrUpdate", ImageName, 0, FALSE))]
          /\ Ret(p, [NoResult EXCEPT !.err = "cannot update vm"])
          /\ frame' = [frame EXCEPT ![p].vm = dataDisks]
          /\ UNCHANGED <<updates, future>>
    /\ UNCHANGED <<args, ImageName, account, creating, deleting, instances>>

\* lines 140-154
AttachUpdate(p) ==
    /\ pc[p] = "AttachUpdate"
    /\ VMCreateOrUpdate(p, AttachDataDisks(frame[p].vm, args[p].name))

\* lines 167-172: vmClient.Get reads the instance, or fails; the provider
\* answers an instance without data disks with an empty list, not with nil
DetachVolume(p, image, name) ==
    /\ pc[p] = "idle"
    /\ args' = [args EXCEPT ![p] = [op |-> "DetachVolume", name |-> name, size |-> << >>, image |-> image]]
    /\ \/ /\ trace' = [trace EXCEPT ![p] = <<Call("VMGet", ImageName, 0, TRUE)>>]
          /\ frame' = [frame EXCEPT ![p].vm = instances[image], ![p].before = instances[image]]
          /\ pc' = [pc EXCEPT ![p] = "DetachUpdate"]
          /\ UNCHANGED result
       \/ /\ trace' = [trace EXCEPT ![p] = <<Call("VMGet", ImageName, 0, FALSE)>>]
          /\ Ret(p, [NoResult EXCEPT !.err = "get vm"])
          /\ UNCHANGED frame
    /\ UNCHANGED <<future, ImageName, account, creating, deleting, instances, updates>>

\* DetachUpdate submitting the data disks as they were read
DetachUpdate_Unfiltered(p) ==
    /\ pc[p] = "DetachUpdate"
    /\ VMCreateOrUpdate(p, frame[p].vm)

\* lines 174-187
DetachUpdate(p) ==
    /\ pc[p] = "DetachUpdate"
    /\ VMCreateOrUpdate(p, DetachDataDisks(frame[p].vm, args[p].name))

\* WaitForCompletionRef returning at once, whatever the state of the operation
WaitForCompletionRef_NoWait(p) ==
    /\ pc[p] = "WaitForCompletionRef"
    /\ future' = [future EXCEPT ![p] = "none"]
    /\ trace' = [trace EXCEPT ![p] = Append(@, Call("WaitForCompletionRef", ImageName, 0, future[p] # "Failed"))]
    /\ Ret(p, [NoResult EXCEPT !.err = IF future[p] # "Failed" THEN "nil"
                                       ELSE "cannot get the vm create or update future response"])
    /\ UNCHANGED <<args, frame, ImageName, account, creating, deleting, instances, updates>>

\* lines 158-163, 191-196: future.WaitForCompletionRef returns when the
\* operation has ended, with an error when it ended in failure
WaitForCompletionRef(p) ==
    /\ pc[p] = "WaitForCompletionRef"
    /\ future[p] \in {"Succeeded", "Failed"}
    /\ future' = [future EXCEPT ![p] = "none"]
    /\ trace' = [trace EXCEPT ![p] = Append(@, Call("WaitForCompletionRef", ImageName, 0, future[p] = "Succeeded"))]
    /\ Ret(p, [NoResult EXCEPT !.err = IF future[p] = "Succeeded" THEN "nil"
                                       ELSE "cannot get the vm create or update future response"])
    /\ UNCHANGED <<args, frame, ImageName, account, creating, deleting, instances, updates>>

\* WaitPollFails reporting the failed poll with the message of a rejected update
WaitPollFails_AsRejected(p) ==
    /\ pc[p] = "WaitForCompletionRef"
    /\ future' = [future EXCEPT ![p] = "none"]
    /\ updates' = [k \in 1..Len(updates) |->
                     IF updates[k].owner = p THEN [updates[k] EXCEPT !.owner = "nobody"]
                     ELSE updates[k]]
    /\ trace' = [trace EXCEPT ![p] = Append(@, Call("WaitForCompletionRef", ImageName, 0, FALSE))]
    /\ Ret(p, [NoResult EXCEPT !.err = "cannot update vm"])
    /\ UNCHANGED <<args, frame, ImageName, account, creating, deleting, instances>>

\* ... or returns the error of a poll that failed; the operation goes on
WaitPollFails(p) ==
    /\ pc[p] = "WaitForCompletionRef"
    /\ future' = [future EXCEPT ![p] = "none"]
    /\ updates' = [k \in 1..Len(updates) |->
                     IF updates[k].owner = p THEN [updates[k] EXCEPT !.owner = "nobody"]
                     ELSE updates[k]]
    /\ trace' = [trace EXCEPT ![p] = Append(@, Call("WaitForCompletionRef", ImageName, 0, FALSE))]
    /\ Ret(p, [NoResult EXCEPT !.err = "cannot get the vm create or update future response"])
    /\ UNCHANGED <<args, frame, ImageName, account, creating, deleting, instances>>

\* ------------------------------------------------- the IBM volume service
\* ibm_volume.go: the five operations of the IBM provider are stubs.  They
\* read none of their arguments (data, provider and attachID included) and
\* call no client.
\* lines 5-9: var vol lepton.NanosVolume; return vol, nil
IBMCreateVolume(p, name, data, provider) ==
    /\ pc[p] = "idle"
    /\ args' = [args EXCEPT ![p] = [NoArgs EXCEPT !.op = "IBM.CreateVolume", !.name = name, !.image = ""]]
    /\ trace' = [trace EXCEPT ![p] = << >>]
    /\ Ret(p, [NoResult EXCEPT !.err = "nil", !.vol = NoVolume])
    /\ UNCHANGED <<frame, future, ImageName, account, creating, deleting, instances, updates>>

\* IBMGetAllVolumes returning a pointer to an empty list
IBMGetAllVolumes_Empty(p) ==
    /\ pc[p] = "idle"
    /\ args' = [args EXCEPT ![p] = [NoArgs EXCEPT !.op = "IBM.GetAllVolumes", !.name = "", !.image = ""]]
    /\ trace' = [trace EXCEPT ![p] = << >>]
    /\ Ret(p, [NoResult EXCEPT !.err = "nil", !.vols = [nil |-> FALSE, list |-> << >>]])
    /\ UNCHANGED <<frame, future, ImageName, account, creating, deleting, instances, updates>>

\* lines 11-14: return nil, nil
IBMGetAllVolumes(p) ==
    /\ pc[p] = "idle"
    /\ args' = [args EXCEPT ![p] = [NoArgs EXCEPT !.op = "IBM.GetAllVolumes", !.name = "", !.image = ""]]
    /\ trace' = [trace EXCEPT ![p] = << >>]
    /\ Ret(p, [NoResult EXCEPT !.err = "nil", !.vols = [nil |-> TRUE, list |-> << >>]])
    /\ UNCHANGED <<frame, future, ImageName, account, creating, deleting, instances, updates>>

\* lines 16-19: return nil
IBMDeleteVolume(p, name) ==
    /\ pc[p] = "idle"
    /\ args' = [args EXCEPT ![p] = [NoArgs EXCEPT !.op = "IBM.DeleteVolume", !.name = name, !.image = ""]]
    /\ trace' = [trace EXCEPT ![p] = << >>]
    /\ Ret(p, [NoResult EXCEPT !.err = "nil"])
    /\ UNCHANGED <<frame, future, ImageName, account, creating, deleting, instances, updates>>

\* lines 21-24: return nil
IBMAttachVolume(p, image, name, attachID) ==
    /\ pc[p] = "idle"
    /\ args' = [args EXCEPT ![p] = [NoArgs EXCEPT !.op = "IBM.AttachVolume", !.name = name, !.image = image]]
    /\ trace' = [trace EXCEPT ![p] = << >>]
    /\ Ret(p, [NoResult EXCEPT !.err = "nil"])
    /\ UNCHANGED <<frame, future, ImageName, account, creating, deleting, instances, updates>>

\* lines 26-29: return nil
IBMDetachVolume(p, image, name) ==
    /\ pc[p] = "idle"
    /\ args' = [args EXCEPT ![p] = [NoArgs EXCEPT !.op = "IBM.DetachVolume", !.name = name, !.image = image]]
    /\ trace' = [trace EXCEPT ![p] = << >>]
    /\ Ret(p, [NoResult EXCEPT !.err = "nil"])
    /\ UNCHANGED <<frame, future, ImageName, account, creating, deleting, instances, updates>>

\* ----------------------------------------- the provider's instance updates
\* IsNextUpdate of a provider that works on the updates in any order
IsNextUpdate_AnyOrder(k) == k \in 1..Len(updates)

\* the provider works on the updates of one instance in the order it took them
IsNextUpdate(k) ==
    /\ k \in 1..Len(updates)
    /\ \A j \in 1..(k - 1) : updates[j].image # updates[k].image

RemoveUpdate(k) == SubSeq(updates, 1, k - 1) \o SubSeq(updates, k + 1, Len(updates))

\* a disk can be put on an instance when it exists and no other instance has it
Attachable(u) ==
    \A d \in DiskNames(u.DataDisks) :
        \E k \in 1..Len(account) :
            /\ account[k].Name = d
            /\ account[k].ManagedBy \in {<< >>, VMID(u.image)}

Settle(k, state) ==
    /\ updates' = RemoveUpdate(k)
    /\ future' = [p \in Procs |-> IF p = updates[k].owner THEN state ELSE future[p]]

\* the update ends in success: the instance has the data disks of the update,
\* and the disks name the instance that holds them
UpdateSucceeds(k) ==
    /\ IsNextUpdate(k)
    /\ Attachable(updates[k])
    /\ LET u == updates[k]
       IN  /\ instances' = [instances EXCEPT ![u.image] = u.DataDisks]
           /\ account' = [i \in 1..Len(account) |->
                            IF account[i].Name \in DiskNames(u.DataDisks)
                            THEN [account[i] EXCEPT !.ManagedBy = VMID(u.image)]
                            ELSE IF account[i].ManagedBy = VMID(u.image)
                            THEN [account[i] EXCEPT !.ManagedBy = << >>]
                            ELSE account[i]]
    /\ Settle(k, "Succeeded")
    /\ UNCHANGED <<pc, args, frame, result, trace, ImageName, creating, deleting>>

\* the update ends in failure: the instance stays as it was
UpdateFails(k) ==
    /\ IsNextUpdate(k)
    /\ Settle(k, "Failed")
    /\ UNCHANGED <<pc, args, frame, result, trace, ImageName, account, creating, deleting, instances>>

\* ------------------------------------------------------- specifications
\* One command of the tool runs one operation.  The operations are checked
\* in families, each from every starting account: creating volumes, listing
\* them, and attaching and detaching them (with the listing that shows the
\* result).  In these families the operations run one after the other, so
\* one caller issues them all.
Caller == "c1"

CreateStep(p) ==
    \/ \E name \in Names, size \in SizeStrings : CreateVolume(p, name, size)
    \/ CreateLocalVolume(p)
    \/ SetImageName(p)
    \/ CopyToBucket(p)
    \/ DisksCreateOrUpdate(p)

ListStep(p) ==
    \/ GetAllVolumes(p)
    \/ PageValues(p)
    \/ RangeDisks(p)

AttachStep(p) ==
    \/ \E image \in Instances, name \in Names : AttachVolume(p, image, name)
    \/ DisksGet(p)
    \/ AttachUpdate(p)
    \/ \E image \in Instances, name \in Names : DetachVolume(p, image, name)
    \/ DetachUpdate(p)
    \/ WaitForCompletionRef(p)
    \/ WaitPollFails(p)

DeleteStep(p) == \E name \in Names : DeleteVolume(p, name)

DeleteProvider ==
    \/ \E name \in deleting : DiskDeleted(name)
    \/ \E name \in deleting : DiskDeleteFailed(name)

\* the arguments the stubs are called with: names and instances that exist
\* or not, the empty string among them
IBMNames == Names \cup {""}

IBMImages == Instances \cup {""}

IBMProviders == {"ibm", ""}

IBMAttachIDs == {-1, 0, 1}

IBMStep(p) ==
    \/ \E name \in IBMNames, data \in SizeStrings, provider \in IBMProviders :
          IBMCreateVolume(p, name, data, provider)
    \/ IBMGetAllVolumes(p)
    \/ \E name \in IBMNames : IBMDeleteVolume(p, name)
    \/ \E image \in IBMImages, name \in IBMNames, attachID \in IBMAttachIDs :
          IBMAttachVolume(p, image, name, attachID)
    \/ \E image \in IBMImages, name \in IBMNames : IBMDetachVolume(p, image, name)

DiskProvider ==
    \/ \E c \in creating : DiskCreated(c)
    \/ \E c \in creating : DiskCreateFailed(c)

VMProvider ==
    \/ \E k \in 1..Len(updates) : UpdateSucceeds(k)
    \/ \E k \in 1..Len(updates) : UpdateFails(k)

NextCreate ==
    \/ CreateStep(Caller)
    \/ Return(Caller)
    \/ DiskProvider

NextList ==
    \/ ListStep(Caller)
    \/ Return(Caller)

NextDelete ==
    \/ DeleteStep(Caller)
    \/ Return(Caller)
    \/ DeleteProvider

NextIBM ==
    \/ IBMStep(Caller)
    \/ Return(Caller)

\* Two callers each run one AttachVolume or DetachVolume, at the same time.
NextConc ==
    \/ \E p \in Procs : AttachStep(p)
    \/ VMProvider

\* a listing during which the fetches of the following page may go on failing
NextListOutage ==
    \/ ListStep(Caller)
    \/ RangeDisksOutage(Caller)
    \/ Return(Caller)

\* attaching and detaching alone, without the listing
NextUpdate ==
    \/ AttachStep(Caller)
    \/ Return(Caller)
    \/ VMProvider

NextAttach ==
    \/ AttachStep(Caller)
    \/ ListStep(Caller)
    \/ Return(Caller)
    \/ VMProvider

Next ==
    \/ \E p \in Procs : CreateStep(p) \/ ListStep(p) \/ AttachStep(p) \/ DeleteStep(p) \/ Return(p)
    \/ DiskProvider
    \/ DeleteProvider
    \/ VMProvider

SpecCreate == Init /\ [][NextCreate]_vars

SpecList == Init /\ [][NextList]_vars

SpecAttach == Init /\ [][NextAttach]_vars

SpecUpdate == Init /\ [][NextUpdate]_vars

SpecDelete == Init /\ [][NextDelete]_vars

SpecIBM == Init /\ [][NextIBM]_vars

SpecConc == Init /\ [][NextConc]_vars

\* the caller goes on running as long as it has a step to take
SpecListOutage == Init /\ [][NextListOutage]_vars /\ WF_vars(NextListOutage)

Spec == Init /\ [][Next]_vars


\* ----------------------------------------------------------------- claims
Returned(p, op) == pc[p] = "return" /\ args[p].op = op

Calls(p) == [k \in 1..Len(trace[p]) |-> trace[p][k].call]

AllOk(p) == \A k \in 1..Len(trace[p]) : trace[p][k].ok

CreateSteps == <<"Atoi", "CreateLocalVolume", "CopyToBucket", "DisksCreateOrUpdate">>

\* the magnitude of a natural number
RECURSIVE NatMag(_)
NatMag(n) == IF n < 10 THEN <<n>> ELSE Append(NatMag(n \div 10), n % 10)

\* the magnitude m times 10^k
TimesPow10(m, k) == IF m = <<0>> THEN m ELSE m \o [i \in 1..k |-> 0]

\* s is the quotient of the magnitude b by 10^k: s * 10^k <= b < (s + 1) * 10^k
IsQuotient(s, b, k) ==
    /\ s >= 0
    /\ MagLeq(TimesPow10(NatMag(s), k), b)
    /\ MagLess(b, TimesPow10(NatMag(s + 1), k))

\* the sizes CreateVolume has handed to the provider in its current call
Submitted(p) ==
    {trace[p][k].DiskSizeGB : k \in {j \in 1..Len(trace[p]) : trace[p][j].call = "DisksCreateOrUpdate"}}

\* C1: CreateVolume makes its calls in the order parse, local volume, upload,
\* disk creation; a call is made only when every call before it succeeded, and
\* CreateVolume returns an error exactly when its last call failed, so no call
\* follows a failed one.
C1_StepsInOrder ==
    \A p \in Procs : args[p].op = "CreateVolume" =>
        /\ Len(trace[p]) <= Len(CreateSteps)
        /\ Calls(p) = SubSeq(CreateSteps, 1, Len(trace[p]))
        /\ \A k \in 1..(Len(trace[p]) - 1) : trace[p][k].ok
        /\ pc[p] = "return" =>
             /\ result[p].err = "nil" <=> (Len(trace[p]) = Len(CreateSteps) /\ AllOk(p))
             /\ result[p].err # "nil" <=> ~trace[p][Len(trace[p])].ok

\* C1 witness: CreateVolume has returned the error of a failed upload, and no
\* disk creation was asked for
C1_Witness ==
    \E p \in Procs :
        /\ Returned(p, "CreateVolume")
        /\ Calls(p) = SubSeq(CreateSteps, 1, 3)
        /\ ~trace[p][3].ok
        /\ result[p].err = "copy volume archive to azure bucket"
        /\ creating = {}

\* C2: when CreateVolume has returned success for a name, a disk of that name
\* exists in the account and its creation is neither pending nor failed.
C2_Claim ==
    \A p \in Procs : (Returned(p, "CreateVolume") /\ result[p].err = "nil") =>
        /\ HasDisk(args[p].name)
        /\ \A c \in creating : c.Name # args[p].name

\* C3: for a size that parses as a positive byte count, the disk size handed to
\* the provider is the byte count divided by 1,000,000 and by 1,000,000 again;
\* the size "5000000000" gives 5.
C3_Claim ==
    \A p \in Procs : \A s \in Submitted(p) :
        (~frame[p].sizeInt.neg /\ frame[p].sizeInt.mag # <<0>>) =>
            /\ IsQuotient(s, frame[p].sizeInt.mag, 12)
            /\ args[p].size = Size5G => s = 5

\* C4: for a non-negative byte count b the disk size s handed to the provider
\* is b divided by the unit 1,000,000 and truncated: s * unit <= b < (s + 1) *
\* unit; 1,999,999 bytes give 1.
C4_Claim ==
    \A p \in Procs : \A s \in Submitted(p) :
        ~frame[p].sizeInt.neg =>
            /\ IsQuotient(s, frame[p].sizeInt.mag, 6)
            /\ args[p].size = Size1999999 => s = 1

\* C5: the upload collaborator is called only with ImageName equal to the name
\* argument, and ImageName is the name when CreateVolume returns success.
C5_ImageNameBeforeUpload ==
    \A p \in Procs : args[p].op = "CreateVolume" =>
        /\ \A k \in 1..Len(trace[p]) :
             trace[p][k].call = "CopyToBucket" => trace[p][k].ImageName = args[p].name
        /\ (pc[p] = "return" /\ result[p].err = "nil") => ImageName = args[p].name

\* C5 witness: CreateVolume has returned success for a name after an earlier
\* CreateVolume had left ImageName at another name
C5_Witness ==
    \E p \in Procs :
        /\ Returned(p, "CreateVolume")
        /\ result[p].err = "nil"
        /\ trace[p][1].ImageName \notin {"", args[p].name}
        /\ trace[p][3].ImageName = args[p].name

\* C6: when AttachVolume has returned success, the data disks of the instance
\* are exactly the one disk of the call, at logical unit number 0.
C6_AttachReplacesDataDisks ==
    \A p \in Procs : (Returned(p, "AttachVolume") /\ result[p].err = "nil") =>
        instances[args[p].image] = <<[Lun |-> 0, Name |-> args[p].name]>>

\* C6 witness: AttachVolume has returned success on an instance that held two
\* other data disks when the call read it
C6_Witness ==
    \E p \in Procs :
        /\ Returned(p, "AttachVolume")
        /\ result[p].err = "nil"
        /\ Len(frame[p].before) = 2
        /\ args[p].name \notin DiskNames(frame[p].before)

\* C7: a DetachVolume of a name that is not among the data disks of the
\* instance submits the data disks as it read them, leaves them as they were
\* when it returns success, and returns an error only when a call to the
\* provider failed.
C7_DetachAbsentIsNoOp ==
    \A p \in Procs :
        (/\ args[p].op = "DetachVolume"
         /\ trace[p][1].ok
         /\ args[p].name \notin DiskNames(frame[p].before)) =>
            /\ frame[p].vm = frame[p].before
            /\ \A k \in 1..Len(updates) :
                 updates[k].owner = p => updates[k].DataDisks = frame[p].before
            /\ pc[p] = "return" =>
                 /\ result[p].err = "nil" => instances[args[p].image] = frame[p].before
                 /\ result[p].err = "nil" <=> AllOk(p)

\* C7 witness: DetachVolume has returned success for a name the instance did
\* not hold, on an instance that holds another disk
C7_Witness ==
    \E p \in Procs :
        /\ Returned(p, "DetachVolume")
        /\ result[p].err = "nil"
        /\ frame[p].before # << >>
        /\ args[p].name \notin DiskNames(frame[p].before)

\* C8: a GetAllVolumes issued right after AttachVolume(instance, name) has
\* returned success lists the volume of that name, with AttachedTo equal to
\* the instance.
C8_Claim ==
    \A p \in Procs :
        (/\ Returned(p, "GetAllVolumes")
         /\ result[p].err = "nil"
         /\ frame[p].after.op = "AttachVolume") =>
            LET list == result[p].vols.list
            IN  /\ \E k \in 1..Len(list) : list[k].Name = frame[p].after.name
                /\ \A k \in 1..Len(list) :
                     list[k].Name = frame[p].after.name =>
                        list[k].AttachedTo = <<frame[p].after.image>>

\* C9: when no call to the provider fails, GetAllVolumes returns the volumes of
\* all disks of the account, each once, in the order of the provider.
C9_Claim ==
    \A p \in Procs :
        (Returned(p, "GetAllVolumes") /\ AllOk(p)) =>
            /\ ~result[p].vols.nil
            /\ result[p].vols.list =
                 [k \in 1..Len(frame[p].listing) |-> VolumeOf(frame[p].listing[k])]

\* C10: when a call to the provider fails during GetAllVolumes, the first or
\* the fetch of a later page, GetAllVolumes returns an error and no list.
C10_Claim ==
    \A p \in Procs :
        (Returned(p, "GetAllVolumes") /\ ~AllOk(p)) =>
            /\ result[p].err # "nil"
            /\ result[p].vols.nil


\* C11: GetAllVolumes on an account without disks, the List call succeeding,
\* returns no error and a list that is not nil and has no element.
C11_EmptyAccountEmptyList ==
    \A p \in Procs :
        (Returned(p, "GetAllVolumes") /\ trace[p][1].ok /\ frame[p].listing = << >>) =>
            /\ result[p].err = "nil"
            /\ ~result[p].vols.nil
            /\ result[p].vols.list = << >>

\* C11 witness: GetAllVolumes has returned from a listing of an account
\* without disks
C11_Witness ==
    \E p \in Procs :
        /\ Returned(p, "GetAllVolumes")
        /\ trace[p][1].ok
        /\ account = << >>
        /\ frame[p].listing = << >>

\* C12: DeleteVolume for a name no disk of the account has returns an error
\* and leaves the disks of the account as they are.
C12_Claim ==
    [][\A p \in Procs :
         (pc[p] = "idle" /\ args'[p].op = "DeleteVolume" /\ ~HasDisk(args'[p].name)) =>
            /\ result'[p].err # "nil"
            /\ account' = account]_vars

\* C20: for a size that parses as a positive byte count, the disk size handed
\* to the provider is the quotient itself: it is not negative and its digits
\* are those of the byte count divided by 1000 and by 1000 again.
C20_Claim ==
    \A p \in Procs : \A s \in Submitted(p) :
        (~frame[p].sizeInt.neg /\ frame[p].sizeInt.mag # <<0>>) =>
            /\ s >= 0
            /\ NatMag(s) = Quot(Quot(frame[p].sizeInt, 1000), 1000).mag


\* the operations that update an instance
IsUpdateOp(p) == args[p].op \in {"AttachVolume", "DetachVolume"}

\* the last call the current operation of p has made
LastCall(p) == trace[p][Len(trace[p])]

\* the updates in progress that p waits for
Owned(p) == {k \in 1..Len(updates) : updates[k].owner = p}

WaitError == "cannot get the vm create or update future response"

IBMOps == {"IBM.CreateVolume", "IBM.GetAllVolumes", "IBM.DeleteVolume",
           "IBM.AttachVolume", "IBM.DetachVolume"}

\* C13: an operation of the IBM provider, whatever its arguments and whatever
\* ran before it, returns no error, the zero volume and the nil list, and
\* leaves the disks, the instances and the provider's operations as they are.
C13_StubsDoNothing ==
    [][\A p \in Procs : (pc[p] = "idle" /\ args'[p].op \in IBMOps) =>
         /\ pc'[p] = "return"
         /\ result'[p].err = "nil"
         /\ result'[p].vol = NoVolume
         /\ result'[p].vols = [nil |-> TRUE, list |-> << >>]
         /\ trace'[p] = << >>
         /\ UNCHANGED <<account, instances, creating, deleting, updates, future, ImageName>>]_vars

\* C13 witness: the DeleteVolume of the IBM provider has returned for a disk
\* of the account that an instance holds, and the disk is still held
C13_Witness ==
    \E p \in Procs : \E k \in 1..Len(account) :
        /\ Returned(p, "IBM.DeleteVolume")
        /\ result[p].err = "nil"
        /\ account[k].Name = args[p].name
        /\ account[k].ManagedBy # << >>

\* p has returned success from an update of the instance
Updated(p, op) == Returned(p, op) /\ result[p].err = "nil"

\* C14: when two AttachVolume calls for different disks of one instance have
\* both returned success, the instance holds exactly the disk of the call
\* whose update the provider took last, and not the disk of the other call.
C14_LastWriterWins ==
    \A p, q \in Procs :
        (/\ Updated(p, "AttachVolume") /\ Updated(q, "AttachVolume")
         /\ args[p].image = args[q].image
         /\ args[p].name # args[q].name
         /\ frame[p].ticket < frame[q].ticket) =>
            /\ instances[args[q].image] = <<[Lun |-> 0, Name |-> args[q].name]>>
            /\ args[p].name \notin DiskNames(instances[args[q].image])

\* C14 witness: two AttachVolume calls for different disks of an instance have
\* both read the instance without data disks and both returned success
C14_Witness ==
    \E p, q \in Procs :
        /\ Updated(p, "AttachVolume") /\ Updated(q, "AttachVolume")
        /\ args[p].image = args[q].image
        /\ args[p].name # args[q].name
        /\ frame[p].ticket < frame[q].ticket
        /\ frame[p].before = << >> /\ frame[q].before = << >>
        /\ \A k \in 1..Len(account) :
             account[k].Name = args[p].name => account[k].ManagedBy = << >>

\* C15: AttachVolume and DetachVolume leave the wait for the update only when
\* the update has ended or the wait has failed: they return success only for
\* an update that has ended in success and that is no longer in progress, and
\* an error when the update has ended in failure or the wait has failed.
C15_BlocksUntilTerminal ==
    [][\A p \in Procs :
         (IsUpdateOp(p) /\ pc[p] = "WaitForCompletionRef" /\ pc'[p] # pc[p]) =>
            /\ pc'[p] = "return"
            /\ IF future[p] = "Succeeded" /\ LastCall(p)'.ok
               THEN result'[p].err = "nil" /\ Owned(p) = {}
               ELSE result'[p].err = WaitError]_vars

\* C15 witness: a DetachVolume for an instance with data disks has returned
\* success from its wait, and the instance holds the data disks it submitted
C15_Witness ==
    \E p \in Procs :
        /\ Returned(p, "DetachVolume")
        /\ result[p].err = "nil"
        /\ LastCall(p) = Call("WaitForCompletionRef", ImageName, 0, TRUE)
        /\ frame[p].before # << >>
        /\ instances[args[p].image] = frame[p].vm

\* C16: a failed lookup of the instance or of the disk is the last call of
\* the operation: it is made once, the operation returns its error, and it has
\* submitted no update of the instance.
C16_LookupFailureStops ==
    \A p \in Procs : IsUpdateOp(p) =>
        \A k \in 1..Len(trace[p]) :
            (trace[p][k].call \in {"VMGet", "DisksGet"} /\ ~trace[p][k].ok) =>
                /\ k = Len(trace[p])
                /\ pc[p] = "return"
                /\ result[p].err = (IF trace[p][k].call = "VMGet" THEN "get vm" ELSE "get disk")
                /\ \A j \in 1..(k - 1) : trace[p][j].call # trace[p][k].call
                /\ Owned(p) = {}
                /\ future[p] # "InProgress"

\* C16 witness: AttachVolume has returned the error of the lookup of a disk
\* that does not exist, for an instance that holds a data disk
C16_Witness ==
    \E p \in Procs :
        /\ Returned(p, "AttachVolume")
        /\ result[p].err = "get disk"
        /\ ~HasDisk(args[p].name)
        /\ instances[args[p].image] # << >>
        /\ instances[args[p].image] = frame[p].before

\* C17: a rejected submission returns "cannot update vm" and leaves no update
\* of this call with the provider; a failed wait returns another error, that
\* of the future response.
C17_WaitErrorDistinct ==
    \A p \in Procs : (IsUpdateOp(p) /\ pc[p] = "return" /\ ~LastCall(p).ok) =>
        /\ LastCall(p).call = "VMCreateOrUpdate" =>
              /\ result[p].err = "cannot update vm"
              /\ \A k \in 1..(Len(trace[p]) - 1) : trace[p][k].call # "VMCreateOrUpdate"
              /\ Owned(p) = {}
        /\ LastCall(p).call = "WaitForCompletionRef" =>
              /\ result[p].err = WaitError
              /\ result[p].err # "cannot update vm"
              /\ trace[p][Len(trace[p]) - 1] = Call("VMCreateOrUpdate", ImageName, 0, TRUE)

\* C17 witness: AttachVolume has returned the error of the wait, and the
\* instance holds the data disks the call has submitted
C17_Witness ==
    \E p \in Procs :
        /\ Returned(p, "AttachVolume")
        /\ result[p].err = WaitError
        /\ instances[args[p].image] = frame[p].vm
        /\ frame[p].vm # frame[p].before


\* the provider ends the update of the DetachVolume of p in success
DetachApplied(p) ==
    /\ args[p].op = "DetachVolume"
    /\ future[p] = "InProgress"
    /\ future'[p] = "Succeeded"

\* the data disks of old under another name than name are all in new, in
\* the order they have in old
OthersStay(old, new, name) ==
    SelectSeq(new, LAMBDA d : d.Name # name /\ \E i \in 1..Len(old) : old[i] = d) =
        SelectSeq(old, LAMBDA d : d.Name # name)

\* C18 as stated: when the update of a DetachVolume ends in success, every
\* data disk the instance has under another name stays attached, in its
\* order, whatever other calls run on the instance at the same time.
C18_Claim ==
    [][\A p \in Procs : DetachApplied(p) =>
         OthersStay(instances[args[p].image], instances'[args[p].image], args[p].name)]_vars

\* C18: the update of a DetachVolume sets the data disks of the instance to
\* those the call has read at its start without the entries of that name; when
\* the instance still has the data disks the call has read, every other disk
\* stays attached, in its order.
C18_DetachFiltersDisksRead ==
    [][\A p \in Procs : DetachApplied(p) =>
         /\ instances'[args[p].image] =
                SelectSeq(frame[p].before, LAMBDA d : d.Name # args[p].name)
         /\ instances[args[p].image] = frame[p].before =>
                instances'[args[p].image] =
                    SelectSeq(instances[args[p].image], LAMBDA d : d.Name # args[p].name)]_vars

\* C18 witness: a DetachVolume has returned success for an instance it has
\* read with two data disks, and the instance holds the other disk
C18_Witness ==
    \E p \in Procs :
        /\ Updated(p, "DetachVolume")
        /\ Len(frame[p].before) = 2
        /\ args[p].name = frame[p].before[1].Name
        /\ instances[args[p].image] = <<frame[p].before[2]>>


\* C19: a GetAllVolumes that has got its first page returns in the end, also
\* when fetches of the following page fail and when a page has several disks.
C19_Claim ==
    \A p \in Procs : (pc[p] \in {"Values", "range"}) ~> (pc[p] = "return")

====
